---- MODULE Spec2Model ----
(***************************************************************************)
(* Model of pv_forecast_app.py: the memoised weather fetch                  *)
(* (fetch_forecast), the PV output computation (compute_pv_output), the     *)
(* equipment selectors of the settings tab and the run handler of the       *)
(* results tab.                                                             *)
(*                                                                          *)
(* Time is counted in whole hours since 00:00 UTC of day 0.  A float64      *)
(* value is modelled as a binary floating-point number <<m, e>> = m * 2^e   *)
(* with a significand of Precision bits and round-to-nearest-even, the      *)
(* exponent unbounded (no overflow, no subnormals).                         *)
(***************************************************************************)
EXTENDS Integers, Sequences, FiniteSets, TLC

VARIABLES
    now,        \* the clock: hours since 00:00 UTC of day 0
    cache,      \* st.cache_data store of fetch_forecast: (lat, lon, tz) -> cached return
    requests,   \* number of outbound HTTP requests issued so far
    fetched,    \* record of the last fetch_forecast call
    inp,        \* arguments of the next/last compute_pv_output call
    out,        \* record of the last compute_pv_output call
    total,      \* the total the run handler displayed last ("none" before any run)
    catalog,    \* the loaded equipment tables [modules, inverters]
    sel         \* record of the last run of a selector block of the settings tab

vars == <<now, cache, requests, fetched, inp, out, total, catalog, sel>>

(***************************************************************************)
(* Bounds of the model.                                                     *)
(***************************************************************************)
Precision == 5      \* significand bits of the modelled float (53 in float64)
MaxUnits == 2       \* num_panels and num_inverters range over 1..MaxUnits
MaxScale == 3       \* scale factors k of the panel count range over 2..MaxScale
MaxRows == 2        \* rows of a provider response / weather frame
MaxDay == 1         \* the clock runs from day 0 to the end of day MaxDay
MaxRequests == 2    \* outbound requests issued in one behaviour

(***************************************************************************)
(* Program constants.                                                       *)
(***************************************************************************)
WattsPerKw == 1000          \* ac * num_panels * num_inverters / 1000
HoursPerDay == 24
BerlinOffset == 2           \* Europe/Berlin in summer time: UTC+2

Abs(x) == IF x < 0 THEN -x ELSE x
Min(a, b) == IF a < b THEN a ELSE b

RECURSIVE Pow2(_)
Pow2(n) == IF n <= 0 THEN 1 ELSE 2 * Pow2(n - 1)

RECURSIVE BitLen(_)
\* number of binary digits of a >= 0 (0 for a = 0)
BitLen(a) == IF a = 0 THEN 0 ELSE 1 + BitLen(a \div 2)

(***************************************************************************)
(* float64 arithmetic, at Precision bits.                                   *)
(***************************************************************************)
FZero == <<0, 0>>

\* The float nearest to (a + f) * 2^e, sign sgn, where a >= 0 is an integer
\* and 0 <= f < 1 is a fraction that is non-zero iff sticky: round to nearest,
\* ties to even.
FRound(sgn, a, e, sticky) ==
    IF a = 0 THEN FZero
    ELSE LET len == BitLen(a) IN
         IF len <= Precision
         THEN <<sgn * a * Pow2(Precision - len), e - (Precision - len)>>
         ELSE LET s    == len - Precision
                  q    == a \div Pow2(s)
                  r    == a % Pow2(s)
                  half == Pow2(s - 1)
                  up   == \/ r > half
                          \/ r = half /\ sticky
                          \/ r = half /\ ~sticky /\ q % 2 = 1
                  q2   == IF up THEN q + 1 ELSE q
              IN IF q2 = Pow2(Precision)
                 THEN <<sgn * Pow2(Precision - 1), e + s + 1>>
                 ELSE <<sgn * q2, e + s>>

Sign(n) == IF n < 0 THEN -1 ELSE 1

\* float(n) for an integer n
ToFloat(n) == FRound(Sign(n), Abs(n), 0, FALSE)

\* x * k for a float x and an integer k (k converts to float exactly)
FMulInt(x, k) == FRound(Sign(x[1]) * Sign(k), Abs(x[1]) * Abs(k), x[2], FALSE)

\* x / d for a float x and a positive integer d < 2^10: the quotient is
\* computed with GuardBits extra binary digits and a sticky remainder
FDivInt(x, d) ==
    LET guard == 12
        n     == Abs(x[1]) * Pow2(guard)
    IN FRound(Sign(x[1]), n \div d, x[2] - guard, n % d # 0)

\* x + y
FAdd(x, y) ==
    IF x[1] = 0 THEN y
    ELSE IF y[1] = 0 THEN x
    ELSE LET e == Min(x[2], y[2])
             n == x[1] * Pow2(x[2] - e) + y[1] * Pow2(y[2] - e)
         IN FRound(Sign(n), Abs(n), e, FALSE)

RECURSIVE FSum(_)
\* the sum of a sequence of floats, accumulated from the first element on
FSum(s) == IF s = <<>> THEN FZero ELSE FAdd(FSum(SubSeq(s, 1, Len(s) - 1)), s[Len(s)])

FNeg(x) == x[1] < 0

(***************************************************************************)
(* Strings are sequences of one-character strings.                          *)
(***************************************************************************)
US == "_"

\* s.startswith(p)
StartsWith(s, p) == Len(s) >= Len(p) /\ SubSeq(s, 1, Len(p)) = p

\* position of the first occurrence of p in s at or after position i, 0 if none
RECURSIVE Find(_, _, _)
Find(s, p, i) ==
    IF i + Len(p) - 1 > Len(s) THEN 0
    ELSE IF SubSeq(s, i, i + Len(p) - 1) = p THEN i
    ELSE Find(s, p, i + 1)

\* s.split(p): the sequence of the parts of s between the occurrences of p
RECURSIVE Split(_, _)
Split(s, p) ==
    LET i == Find(s, p, 1)
    IN IF i = 0 THEN <<s>>
       ELSE <<SubSeq(s, 1, i - 1)>> \o Split(SubSeq(s, i + Len(p), Len(s)), p)

\* s.strip('_')
RECURSIVE Strip(_)
Strip(s) ==
    IF s = <<>> THEN s
    ELSE IF s[1] = US THEN Strip(Tail(s))
    ELSE IF s[Len(s)] = US THEN Strip(SubSeq(s, 1, Len(s) - 1))
    ELSE s

(***************************************************************************)
(* Time zones and civil dates.                                              *)
(***************************************************************************)
tz == "Europe/Berlin"

\* UTC offset of a zone, in hours
UtcOffset(zone) == IF zone = "Europe/Berlin" THEN BerlinOffset ELSE 0

\* the civil date (day number) of instant t in a zone
CivilDate(t, zone) == (t + UtcOffset(zone)) \div HoursPerDay

(***************************************************************************)
(* Weather frames.  A frame has its rows (instant t, irradiance irr in      *)
(* W/m2; ghi, dni and dhi are zero together) and the set of its columns.    *)
(***************************************************************************)
IrradianceCols == {"ghi", "dni", "dhi"}
AllCols == IrradianceCols \cup {"temperature_2m", "wind_speed_10m"}

\* pd.DataFrame()
EmptyFrame == [rows |-> <<>>, cols |-> {}]

\* DataFrame.empty: an axis of length 0
IsEmpty(frame) == frame.rows = <<>> \/ frame.cols = {}


(***************************************************************************)
(* The equipment tables (pvlib.pvsystem.retrieve_sam).  A key is a string;  *)
(* a module row has its STC power in tenths of a watt, an inverter row the  *)
(* parameters of the Sandia inverter model in watts and its AC voltage.     *)
(***************************************************************************)
ModulePool ==
    (<<"A", "_", "1">> :> [STC |-> 110]) @@
    (<<"A", "_", "2", "_", "_", "_", "9", "_">> :> [STC |-> 305]) @@
    (<<"B", "_", "1">> :> [STC |-> 110])

InverterPool ==
    (<<"A", "_", "1">> :> [Paco |-> 20, Pdco |-> 22, Pso |-> 2, Pnt |-> 1, Vac |-> 240]) @@
    (<<"A", "_", "2">> :> [Paco |-> 20, Pdco |-> 23, Pso |-> 3, Pnt |-> 1, Vac |-> 240]) @@
    (<<"B", "_", "1">> :> [Paco |-> 40, Pdco |-> 42, Pso |-> 2, Pnt |-> 2, Vac |-> 208])

Restrict(f, S) == [k \in S |-> f[k]]

\* the tables the process may have loaded: any non-empty part of each pool
Catalogs ==
    { [modules |-> Restrict(ModulePool, M), inverters |-> Restrict(InverterPool, I)] :
        M \in (SUBSET DOMAIN ModulePool) \ {{}},
        I \in (SUBSET DOMAIN InverterPool) \ {{}} }

FullCatalog == [modules |-> ModulePool, inverters |-> InverterPool]

\* an identifier that is in no table
StaleKey == <<"Z", "_", "9">>

(***************************************************************************)
(* compute_pv_output                                                        *)
(***************************************************************************)
\* ModelChain's DC side for one module: the maximum power, in watts, scales
\* with the irradiance from the STC rating at 1000 W/m2
DcPower(irr, module) == (irr * module.STC) \div 10000

\* pvlib.inverter.sandia with C0 = C1 = C2 = C3 = 0: linear between Pso and
\* Pdco, clipped at Paco, and -Pnt (the night tare) below Pso
SandiaAc(p_dc, inv) ==
    IF p_dc < inv.Pso THEN -inv.Pnt
    ELSE Min(inv.Paco, (inv.Paco * (p_dc - inv.Pso)) \div (inv.Pdco - inv.Pso))

\* mc.results.ac: the single-unit AC power of every row, in watts
ModelChainAc(frame, module, inv) ==
    [i \in DOMAIN frame.rows |-> ToFloat(SandiaAc(DcPower(frame.rows[i].irr, module), inv))]

\* a plausible slip of line 75: the two counts added instead of multiplied
ScaleToKwAddingCounts(ac, num_panels, num_inverters) ==
    FDivInt(FMulInt(ac, num_panels + num_inverters), WattsPerKw)

\* ac * num_panels * num_inverters / 1000, evaluated left to right
ScaleToKw(ac, num_panels, num_inverters) ==
    FDivInt(FMulInt(FMulInt(ac, num_panels), num_inverters), WattsPerKw)

\* the values of series at the rows whose civil date in zone is d, in order
RECURSIVE BinValues(_, _, _, _)
BinValues(rows, series, d, zone) ==
    IF rows = <<>> THEN <<>>
    ELSE LET rest == BinValues(Tail(rows), Tail(series), d, zone)
         IN IF CivilDate(rows[1].t, zone) = d THEN <<series[1]>> \o rest ELSE rest

MinOf(S) == CHOOSE x \in S : \A y \in S : x <= y
MaxOf(S) == CHOOSE x \in S : \A y \in S : y <= x

\* the day bins of an index in zone, from its first to its last civil day,
\* each with the sum of the values of that day
DayBins(rows, series, zone) ==
    LET dates == {CivilDate(rows[i].t, zone) : i \in DOMAIN rows}
        first == MinOf(dates)
        n     == MaxOf(dates) - first + 1
    IN [j \in 1..n |-> [date |-> first + j - 1,
                        val  |-> FSum(BinValues(rows, series, first + j - 1, zone))]]

\* a plausible slip: the index left in UTC, so that the days are UTC days
ResampleUtcDaySum(frame, series) == DayBins(frame.rows, series, "UTC")

\* series.resample('D').sum() on the index of the frame, which is in tz
ResampleDaySum(frame, series) == DayBins(frame.rows, series, tz)

NoSeries == <<>>

\* the three empty series of line 58
EmptyOutput ==
    [ac |-> NoSeries, hourly |-> NoSeries, daily |-> NoSeries,
     raised |-> "none", lookups |-> {}, ran |-> FALSE]

\* a call left by an exception
Raised(exception, lookups, ran) ==
    [ac |-> NoSeries, hourly |-> NoSeries, daily |-> NoSeries,
     raised |-> exception, lookups |-> lookups, ran |-> ran]

\* Lines 68-78 for a frame with rows and the irradiance columns: the model
\* chain, the scaling, the daily sum.
ModelledOutput(weather, module_key, inverter_key, num_panels, num_inverters) ==
    LET ac == ModelChainAc(weather, catalog.modules[module_key],
                           catalog.inverters[inverter_key])
        ac_total_kw == [i \in DOMAIN ac |-> ScaleToKw(ac[i], num_panels, num_inverters)]
        hourly_kwh  == ac_total_kw
        daily_kwh   == ResampleDaySum(weather, hourly_kwh)
    IN [ac |-> ac_total_kw, hourly |-> hourly_kwh, daily |-> daily_kwh,
        raised |-> "none", lookups |-> {"module", "inverter"}, ran |-> TRUE]

\* a plausible slip: the tables are read before the frame is tested
ComputeWithLookupFirst(weather, module_key, inverter_key, num_panels, num_inverters) ==
    IF module_key \notin DOMAIN catalog.modules
    THEN Raised("KeyError", {"module"}, FALSE)
    ELSE IF inverter_key \notin DOMAIN catalog.inverters
    THEN Raised("KeyError", {"module", "inverter"}, FALSE)
    ELSE IF IsEmpty(weather)
    THEN EmptyOutput
    ELSE IF ~(IrradianceCols \subseteq weather.cols)
    THEN Raised("ValueError", {"module", "inverter"}, TRUE)
    ELSE ModelledOutput(weather, module_key, inverter_key, num_panels, num_inverters)

\* Lines 56-78.  The record of a call: the three series returned, the
\* exception raised ("none" if none), the tables looked up, and whether the
\* model chain ran.  _modules[module_key] and _inverters[inverter_key] raise
\* a KeyError for an identifier that is not in the table; run_model raises a
\* ValueError for a frame without ghi, dni and dhi.
compute_pv_output(weather, module_key, inverter_key, num_panels, num_inverters) ==
    IF IsEmpty(weather)
    THEN EmptyOutput
    ELSE IF module_key \notin DOMAIN catalog.modules
    THEN Raised("KeyError", {"module"}, FALSE)
    ELSE IF inverter_key \notin DOMAIN catalog.inverters
    THEN Raised("KeyError", {"module", "inverter"}, FALSE)
    ELSE IF ~(IrradianceCols \subseteq weather.cols)
    THEN Raised("ValueError", {"module", "inverter"}, TRUE)
    ELSE ModelledOutput(weather, module_key, inverter_key, num_panels, num_inverters)

\* daily_kwh.sum() if not daily_kwh.empty else 0.0
DisplayedTotal(daily_kwh) ==
    IF daily_kwh = <<>> THEN FZero
    ELSE FSum([j \in DOMAIN daily_kwh |-> daily_kwh[j].val])

(***************************************************************************)
(* fetch_forecast                                                           *)
(***************************************************************************)
ProviderCols == {"shortwave_radiation", "direct_normal_irradiance", "diffuse_radiation",
                 "temperature_2m", "wind_speed_10m"}

\* df.rename(columns={...}) of line 31
RenameCol(c) ==
    CASE c = "shortwave_radiation"      -> "ghi"
      [] c = "direct_normal_irradiance" -> "dni"
      [] c = "diffuse_radiation"        -> "dhi"
      [] OTHER                          -> c

\* pd.to_datetime(time, utc=True): the instant of an ISO time [day, hour] in UTC
ToDatetimeUtc(iso) == iso.day * HoursPerDay + iso.hour

\* (pd.Timestamp.now(tz) + pd.Timedelta(days=1)).strftime('%Y-%m-%d')
Tomorrow(clock, zone) == CivilDate(clock + HoursPerDay, zone)

\* DatetimeIndex.is_monotonic_increasing
IsMonotonic(rows) == \A i \in 1..(Len(rows) - 1) : rows[i].t <= rows[i + 1].t

RECURSIVE RowsOfDate(_, _, _)
RowsOfDate(rows, d, zone) ==
    IF rows = <<>> THEN <<>>
    ELSE IF CivilDate(rows[1].t, zone) = d
         THEN <<rows[1]>> \o RowsOfDate(Tail(rows), d, zone)
         ELSE RowsOfDate(Tail(rows), d, zone)

\* df.loc[date] on an index of hourly instants (partial string indexing): a
\* KeyError when the index is empty, or is sorted and lies wholly before or
\* wholly after the date; otherwise the rows of the date, which may be none.
\* (No instant of the model is a local midnight, so a non-empty index has a
\* finer resolution than the date.)
LocDate(rows, d, zone) ==
    IF \/ rows = <<>>
       \/ /\ IsMonotonic(rows)
          /\ \/ \A i \in DOMAIN rows : CivilDate(rows[i].t, zone) < d
             \/ \A i \in DOMAIN rows : CivilDate(rows[i].t, zone) > d
    THEN [keyError |-> TRUE, rows |-> <<>>]
    ELSE [keyError |-> FALSE, rows |-> RowsOfDate(rows, d, zone)]

TransportFailures == {"connection_error", "timeout", "http_error"}

\* The body of fetch_forecast, lines 11-42, run at time clock on the
\* provider's response resp: the frame returned, the diagnostic reported
\* with st.error ("none" if none) and the exception raised ("none" if none).
fetch_forecast(resp, clock, zone) ==
    IF resp.kind \in TransportFailures
    THEN [frame |-> EmptyFrame, diag |-> "Failed to fetch weather data", raised |-> "none"]
    ELSE IF resp.kind = "not_json"
    THEN [frame |-> EmptyFrame, diag |-> "none", raised |-> "JSONDecodeError"]
    ELSE IF resp.kind \in {"no_hourly", "no_time"}
    THEN [frame |-> EmptyFrame, diag |-> "No hourly data returned", raised |-> "none"]
    ELSE IF resp.kind = "unequal_lengths"
    THEN [frame |-> EmptyFrame, diag |-> "none", raised |-> "ValueError"]
    ELSE LET df   == [i \in DOMAIN resp.rows |->
                        [t |-> ToDatetimeUtc(resp.rows[i].time), irr |-> resp.rows[i].irr]]
             cols == {RenameCol(c) : c \in resp.cols}
             got  == LocDate(df, Tomorrow(clock, zone), zone)
         IN IF got.keyError
            THEN [frame |-> EmptyFrame, diag |-> "No data available for tomorrow",
                  raised |-> "none"]
            ELSE [frame |-> [rows |-> got.rows, cols |-> cols], diag |-> "none",
                  raised |-> "none"]

(***************************************************************************)
(* Provider responses.                                                      *)
(***************************************************************************)
\* the provider's rows fall at these numbers of hours after the request:
\* with the clock at 10:00 or 23:00 UTC, before, on and after the next civil
\* day of Europe/Berlin, and never on a local midnight
ResponseOffsets == {0, 13, 24, 48}
ResponseIrr == {1000}

\* the ISO time, in UTC, of instant t
IsoTime(t) == [day |-> t \div HoursPerDay, hour |-> t % HoursPerDay]

ResponseRows(clock) ==
    UNION { [1..n -> [time : {IsoTime(clock + d) : d \in ResponseOffsets},
                      irr  : ResponseIrr]] : n \in 0..MaxRows }

Responses(clock) ==
    [kind : TransportFailures \cup {"not_json", "no_hourly", "no_time", "unequal_lengths"},
     rows : {<<>>}, cols : {{}}]
    \cup [kind : {"ok"}, rows : ResponseRows(clock),
          cols : {ProviderCols, {"temperature_2m"}}]

(***************************************************************************)
(* Inputs of compute_pv_output.                                             *)
(***************************************************************************)
\* irradiance levels of a row, W/m2: night, overcast, clear sky
IrrLevels == {0, 400, 1000}

\* instants of the rows of a frame handed to compute_pv_output: 12:00 of
\* day 0, 01:00 of day 1 and 12:00 of day 1 in Europe/Berlin
FrameTimes == {10, 23, 34}

RowsOver(T) == UNION { [1..n -> [t : T, irr : IrrLevels]] : n \in 0..MaxRows }

FrameCols == {AllCols, {"temperature_2m"}, {}}

ComputeInputs ==
    [weather       : [rows : RowsOver(FrameTimes), cols : FrameCols],
     module_key    : {<<"A", "_", "1">>, <<"A", "_", "2", "_", "_", "_", "9", "_">>, StaleKey},
     inverter_key  : {<<"A", "_", "1">>, StaleKey},
     num_panels    : 1..MaxUnits,
     num_inverters : 1..MaxUnits]

NoInput == [weather |-> EmptyFrame, module_key |-> StaleKey, inverter_key |-> StaleKey,
            num_panels |-> 1, num_inverters |-> 1]

NotCalled == [called |-> FALSE] @@ EmptyOutput

Called(res) == [called |-> TRUE] @@ res

NoFetch == [called |-> FALSE, key |-> <<>>, at |-> 0, hit |-> FALSE, sent |-> 0,
            kind |-> "none", complete |-> FALSE, target |-> FALSE,
            frame |-> EmptyFrame, diag |-> "none", raised |-> "none"]
NoSel == [block |-> "none", brand |-> <<>>, options |-> <<>>, labels |-> <<>>,
          mapping |-> <<>>, chosen |-> 0, key |-> "unset", raised |-> "none"]
NoCache == <<>>

\* Lines 153-165 of the run handler: compute_pv_output on the frame and the
\* arguments of inp, then the displayed total; a raise ends the script run
\* before the total is written.
CallCompute ==
    /\ ~out.called
    /\ LET res == compute_pv_output(inp.weather, inp.module_key, inp.inverter_key,
                                    inp.num_panels, inp.num_inverters)
       IN /\ out' = Called(res)
          /\ total' = IF res.raised = "none" THEN DisplayedTotal(res.daily) ELSE total
    /\ UNCHANGED <<now, cache, requests, fetched, inp, catalog, sel>>

InitCompute ==
    /\ inp \in ComputeInputs
    /\ out = NotCalled
    /\ total = "none"
    /\ now = 0
    /\ cache = NoCache
    /\ requests = 0
    /\ fetched = NoFetch
    /\ catalog = FullCatalog
    /\ sel = NoSel

NextCompute == CallCompute

SpecCompute == InitCompute /\ [][NextCompute]_vars

(***************************************************************************)
(* Properties of compute_pv_output and of the displayed total.              *)
(***************************************************************************)
FrameDates(frame) == {CivilDate(frame.rows[i].t, tz) : i \in DOMAIN frame.rows}

Returned == out.called /\ out.raised = "none"
Modelled == Returned /\ out.ran

\* the result of the call of inp with the panel count multiplied by k
Scaled(k) ==
    compute_pv_output(inp.weather, inp.module_key, inp.inverter_key,
                      k * inp.num_panels, inp.num_inverters)

\* C3: a call of compute_pv_output with an empty weather frame returns three
\* empty series without looking up the module or the inverter, without
\* running the model and without raising, whatever the other arguments are,
\* and the handler then displays a total of 0.
EmptyWeatherGivesEmptyForecast ==
    (out.called /\ IsEmpty(inp.weather)) =>
        /\ out.ac = NoSeries /\ out.hourly = NoSeries /\ out.daily = NoSeries
        /\ out.raised = "none"
        /\ out.lookups = {}
        /\ ~out.ran
        /\ total = FZero

\* an empty frame (rows but no columns) was computed with identifiers that
\* are in no table
EmptyWeatherWitness ==
    /\ out.called
    /\ inp.weather.rows # <<>> /\ inp.weather.cols = {}
    /\ inp.module_key = StaleKey /\ inp.inverter_key = StaleKey
    /\ total = FZero

\* C4 as stated: multiplying num_panels by any k multiplies every hourly
\* value of ac_power_kw by exactly k.
ScalesExactlyByAnyFactor ==
    Modelled =>
        \A k \in 2..MaxScale : \A i \in DOMAIN out.ac :
            Scaled(k).ac[i] = FMulInt(out.ac[i], k)

IsPowerOfTwo(k) == k = Pow2(BitLen(k) - 1)

\* |a - b| <= 8 * 2^(-Precision) * |b|: a and b agree to within the rounding
\* of the seven operations that separate them
WithinRounding(a, b) ==
    LET e == Min(a[2], b[2])
        x == a[1] * Pow2(a[2] - e)
        y == b[1] * Pow2(b[2] - e)
    IN Abs(x - y) * Pow2(Precision) <= 8 * Abs(y)

\* C4 as amended: multiplying num_panels by k multiplies every hourly value
\* by exactly k when k is a power of two, and by k to within floating-point
\* rounding otherwise, for clipped and negative hours alike.
ScalesByFactorUpToRounding ==
    Modelled =>
        \A k \in 2..MaxScale : \A i \in DOMAIN out.ac :
            /\ IsPowerOfTwo(k) => Scaled(k).ac[i] = FMulInt(out.ac[i], k)
            /\ WithinRounding(Scaled(k).ac[i], FMulInt(out.ac[i], k))

\* a frame with a clipped hour and a night hour, computed for more than one
\* panel and more than one inverter
ScalingWitness ==
    /\ Modelled
    /\ inp.num_panels > 1 /\ inp.num_inverters > 1
    /\ \E i \in DOMAIN out.ac : FNeg(out.ac[i])
    /\ \E i \in DOMAIN out.ac :
          DcPower(inp.weather.rows[i].irr, catalog.modules[inp.module_key])
              > catalog.inverters[inp.inverter_key].Pdco

\* C5: for a non-empty frame of a single day, the daily energy is one row,
\* the sum of hourly_energy_kwh over all rows of the frame, the displayed
\* total is that sum, and hourly_energy_kwh equals ac_power_kw hour by hour.
DailyIsSumOfHourly ==
    (Modelled /\ Cardinality(FrameDates(inp.weather)) = 1) =>
        /\ Len(out.daily) = 1
        /\ out.daily[1].date \in FrameDates(inp.weather)
        /\ out.daily[1].val = FSum(out.hourly)
        /\ total = FSum(out.hourly)
        /\ out.hourly = out.ac

\* a frame of MaxRows rows of one civil day that lie on two UTC days, with a
\* non-zero sum
DailySumWitness ==
    /\ Modelled
    /\ Len(inp.weather.rows) = MaxRows
    /\ Cardinality(FrameDates(inp.weather)) = 1
    /\ Cardinality({inp.weather.rows[i].t \div HoursPerDay : i \in DOMAIN inp.weather.rows}) = 2
    /\ total # FZero
    /\ \A i \in DOMAIN out.hourly : out.hourly[i] # total

\* C6: no hourly value of ac_power_kw is negative, and an hour without
\* irradiance yields exactly 0.
NoNegativePower ==
    Returned =>
        \A i \in DOMAIN out.ac :
            /\ ~FNeg(out.ac[i])
            /\ inp.weather.rows[i].irr = 0 => out.ac[i] = FZero

(***************************************************************************)
(* The application: the clock and the run handler.                          *)
(***************************************************************************)
Latitudes == {51, 52}
Longitudes == {13}

\* the tables loaded in the behaviours of the run handler
LoadedCatalog ==
    [modules   |-> Restrict(ModulePool, {<<"A", "_", "1">>}),
     inverters |-> Restrict(InverterPool, {<<"A", "_", "1">>})]

\* the hours of the day (UTC) at which the clock is read: 12:00 and 01:00 in
\* Europe/Berlin
ClockHours == {10, 23}
StartOfClock == MinOf(ClockHours)

\* The clock advances to the next of its hours.
Tick ==
    /\ \E t \in (now + 1)..(now + HoursPerDay) :
          /\ t % HoursPerDay \in ClockHours
          /\ \A u \in (now + 1)..(t - 1) : u % HoursPerDay \notin ClockHours
          /\ t < (MaxDay + 1) * HoursPerDay
          /\ now' = t
    /\ UNCHANGED <<cache, requests, fetched, inp, out, total, catalog, sel>>

\* whether a response has a row whose civil date is d
HasDate(resp, d, zone) ==
    \E i \in DOMAIN resp.rows : CivilDate(ToDatetimeUtc(resp.rows[i].time), zone) = d

\* The call fetch_forecast(lat, lon, tz) under st.cache_data: the stored
\* return value (with its st.error replayed) if the arguments are in the
\* store, else the body run on the response resp, its return value stored
\* unless it raised.  Yields the record of the call and the new store.
CachedFetch(lat, lon, resp) ==
    LET key == <<lat, lon, tz>>
    IN IF key \in DOMAIN cache
       THEN [store |-> cache,
             call  |-> [called |-> TRUE, key |-> key, at |-> now, hit |-> TRUE, sent |-> 0,
                        kind |-> "none", complete |-> FALSE, target |-> FALSE,
                        frame |-> cache[key].frame, diag |-> cache[key].diag,
                        raised |-> "none"]]
       ELSE LET r == fetch_forecast(resp, now, tz)
            IN [store |-> IF r.raised = "none"
                          THEN cache @@ (key :> [frame |-> r.frame, diag |-> r.diag])
                          ELSE cache,
                call  |-> [called |-> TRUE, key |-> key, at |-> now, hit |-> FALSE, sent |-> 1,
                           kind |-> resp.kind,
                           complete |-> resp.cols = ProviderCols,
                           target |-> HasDate(resp, Tomorrow(now, tz), tz),
                           frame |-> r.frame, diag |-> r.diag, raised |-> r.raised]]

\* The run handler, lines 150-165: fetch_forecast, compute_pv_output on its
\* frame, the displayed total.  An exception of either call ends the script
\* run where it is raised.
RunForecast(lat, lon, module_key, inverter_key, num_panels, num_inverters, resp) ==
    \E f \in {CachedFetch(lat, lon, resp)} :
    \E res \in {compute_pv_output(f.call.frame, module_key, inverter_key,
                                  num_panels, num_inverters)} :
       /\ f.call.sent = 1 => requests < MaxRequests
       /\ requests' = requests + f.call.sent
       /\ cache' = f.store
       /\ fetched' = f.call
       /\ IF f.call.raised # "none"
          THEN UNCHANGED <<inp, out, total>>
          ELSE /\ inp' = [weather |-> f.call.frame, module_key |-> module_key,
                          inverter_key |-> inverter_key, num_panels |-> num_panels,
                          num_inverters |-> num_inverters]
               /\ out' = Called(res)
               /\ total' = IF res.raised = "none" THEN DisplayedTotal(res.daily) ELSE total
       /\ UNCHANGED <<now, catalog, sel>>

\* A press of the run button.  The inverter count has no part in the fetch
\* and is varied in the behaviours of SpecCompute.
Run ==
    \E lat \in Latitudes, lon \in Longitudes,
       module_key \in DOMAIN catalog.modules, inverter_key \in DOMAIN catalog.inverters,
       num_panels \in 1..MaxUnits, num_inverters \in {1} :
        \/ /\ <<lat, lon, tz>> \in DOMAIN cache
           /\ RunForecast(lat, lon, module_key, inverter_key, num_panels, num_inverters,
                          [kind |-> "none", rows |-> <<>>, cols |-> {}])
        \/ /\ <<lat, lon, tz>> \notin DOMAIN cache
           /\ \E resp \in Responses(now) :
                RunForecast(lat, lon, module_key, inverter_key, num_panels, num_inverters,
                            resp)

Init ==
    /\ now = StartOfClock
    /\ cache = NoCache
    /\ requests = 0
    /\ fetched = NoFetch
    /\ inp = NoInput
    /\ out = NotCalled
    /\ total = "none"
    /\ catalog = LoadedCatalog
    /\ sel = NoSel

Next == Tick \/ Run

Spec == Init /\ [][Next]_vars

(***************************************************************************)
(* Properties of fetch_forecast.                                            *)
(***************************************************************************)
FetchReturned == fetched.called /\ fetched.raised = "none"

AllRowsOfDate(frame, d) ==
    \A i \in DOMAIN frame.rows : CivilDate(frame.rows[i].t, tz) = d

\* C1: whatever the provider answers and whatever the clock shows, a call of
\* fetch_forecast returns either a frame with rows, every row of the civil
\* date of now + 1 day, or an empty frame together with a reported
\* diagnostic.
TomorrowOnlyOrDiagnosedEmpty ==
    FetchReturned =>
        \/ /\ fetched.frame.rows # <<>>
           /\ AllRowsOfDate(fetched.frame, Tomorrow(fetched.at, tz))
        \/ /\ IsEmpty(fetched.frame)
           /\ fetched.diag # "none"

\* the outcomes of a request that C2 lists
ListedFault ==
    \/ fetched.kind # "ok"
    \/ ~fetched.complete
    \/ ~fetched.target

\* C2: no exception leaves fetch_forecast, and on a transport failure, a
\* body that is not JSON, a payload without its hourly block, without
\* 'time', or with missing or unequal-length variable arrays, and on a
\* response without rows for the target date, it returns an empty frame and
\* reports a diagnostic.
FaultsBecomeDiagnosedEmpty ==
    (fetched.called /\ ~fetched.hit) =>
        /\ fetched.raised = "none"
        /\ ListedFault => (IsEmpty(fetched.frame) /\ fetched.diag # "none")

\* C7: a call made on calendar day D never returns a frame with rows of a
\* date other than D + 1, across midnight too.
RowsAreOfDayAfterCall ==
    FetchReturned => AllRowsOfDate(fetched.frame, CivilDate(fetched.at, tz) + 1)

\* C8: a call that follows a failed one with the same arguments (the stored
\* return value is the empty frame of the failure) issues a new request,
\* and no call issues more than one.
FailedFetchIsRetried ==
    fetched.called =>
        /\ fetched.sent <= 1
        /\ (fetched.hit /\ IsEmpty(fetched.frame)) => fetched.sent = 1

(***************************************************************************)
(* The selectors of the settings tab.                                       *)
(***************************************************************************)
\* list(table.keys()): the identifiers in the order of the table
ModuleOrder ==
    << <<"A", "_", "1">>, <<"A", "_", "2", "_", "_", "_", "9", "_">>, <<"B", "_", "1">> >>
InverterOrder == << <<"A", "_", "1">>, <<"A", "_", "2">>, <<"B", "_", "1">> >>

RECURSIVE Filter(_, _)
\* the elements of sequence s that are in set S, in order
Filter(s, S) ==
    IF s = <<>> THEN <<>>
    ELSE IF s[1] \in S THEN <<s[1]>> \o Filter(Tail(s), S) ELSE Filter(Tail(s), S)

module_keys == Filter(ModuleOrder, DOMAIN catalog.modules)
inv_keys == Filter(InverterOrder, DOMAIN catalog.inverters)

\* {k.split('_')[0] for k in keys}
BrandsOf(keys) == {Split(keys[i], <<US>>)[1] : i \in DOMAIN keys}

\* [k for k in keys if k.startswith(brand + '_')]
OptionsOf(keys, brand) ==
    Filter(keys, {keys[i] : i \in {j \in DOMAIN keys : StartsWith(keys[j], brand \o <<US>>)}})

\* params.get(field, default)
ParamGet(params, field, default) ==
    IF field \in DOMAIN params THEN params[field] ELSE default

NotAvailable == <<"N", "/", "A">>

\* Lines 108-117: the label "{name} ({year}, {int(p_stc_w)} W)" of a module,
\* as the triple of its three fields; the power is in tenths of a watt and
\* int() drops the fraction.
ModuleLabel(key) ==
    LET parts    == Split(key, <<US, US, US>>)
        name     == parts[1]
        raw_year == IF Len(parts) > 1 THEN parts[2] ELSE <<>>
        year     == IF Strip(raw_year) # <<>> THEN Strip(raw_year)
                    ELSE ParamGet(catalog.modules[key], "Year", NotAvailable)
        params   == catalog.modules[key]
        p_stc_w  == ParamGet(params, "STC",
                             ParamGet(params, "Impo", 0) * ParamGet(params, "Vmpo", 0))
    IN <<name, year, p_stc_w \div 10>>

\* Lines 130-135: the label "{name} ({paco_kw:.2f} kW, {vac} V)" of an
\* inverter, as the triple of its three fields; the power is in watts, and
\* .2f rounds it to the nearest hundredth of a kilowatt.
InverterLabel(key) ==
    LET parts   == Split(key, <<US>>)
        name    == parts[1]
        params  == catalog.inverters[key]
        paco    == ParamGet(params, "Paco", ParamGet(params, "Pac0", 0))
        vac     == ParamGet(params, "Vac", NotAvailable)
    IN <<name, (paco + 5) \div 10, vac>>

RECURSIVE LabelDict(_, _)
\* the dictionary built by label_to_x[label] = key over the options in
\* order: a later option replaces an earlier one with the same label
LabelDict(labels, options) ==
    IF labels = <<>> THEN <<>>
    ELSE LET n    == Len(labels)
             rest == LabelDict(SubSeq(labels, 1, n - 1), SubSeq(options, 1, n - 1))
         IN (labels[n] :> options[n]) @@ rest

\* Lines 100-122, the module selectors, with the brand and the entry of the
\* list the user picks (the loop of lines 106-119 read at the indentation of
\* the inverter loop of lines 129-137).  st.selectbox returns the picked label; line 121
\* then calls the identifier it looked up, a string, which raises a
\* TypeError, so that line 122 does not assign module_key.
SelectModule(m_brand, pick) ==
    LET module_options == OptionsOf(module_keys, m_brand)
        module_labels  == [i \in DOMAIN module_options |-> ModuleLabel(module_options[i])]
        label_to_module == LabelDict(module_labels, module_options)
    IN /\ pick \in DOMAIN module_labels
       /\ sel' = [block |-> "module", brand |-> m_brand, options |-> module_options,
                  labels |-> module_labels, mapping |-> label_to_module, chosen |-> pick,
                  key |-> "unset", raised |-> "TypeError"]
       /\ UNCHANGED <<now, cache, requests, fetched, inp, out, total, catalog>>

\* Lines 124-139, the inverter selectors.
SelectInverter(i_brand, pick) ==
    LET inverter_options == OptionsOf(inv_keys, i_brand)
        inverter_labels  == [i \in DOMAIN inverter_options |->
                                InverterLabel(inverter_options[i])]
        label_to_inverter == LabelDict(inverter_labels, inverter_options)
    IN /\ pick \in DOMAIN inverter_labels
       /\ sel' = [block |-> "inverter", brand |-> i_brand, options |-> inverter_options,
                  labels |-> inverter_labels, mapping |-> label_to_inverter,
                  chosen |-> pick,
                  key |-> label_to_inverter[inverter_labels[pick]], raised |-> "none"]
       /\ UNCHANGED <<now, cache, requests, fetched, inp, out, total, catalog>>

InitSelect ==
    /\ catalog \in Catalogs
    /\ sel = NoSel
    /\ now = StartOfClock
    /\ cache = NoCache
    /\ requests = 0
    /\ fetched = NoFetch
    /\ inp = NoInput
    /\ out = NotCalled
    /\ total = "none"

NextSelect ==
    \/ \E m_brand \in BrandsOf(module_keys), pick \in 1..Len(module_keys) :
          SelectModule(m_brand, pick)
    \/ \E i_brand \in BrandsOf(inv_keys), pick \in 1..Len(inv_keys) :
          SelectInverter(i_brand, pick)

SpecSelect == InitSelect /\ [][NextSelect]_vars

(***************************************************************************)
(* Properties of the selectors.                                             *)
(***************************************************************************)
SelectedTable == IF sel.block = "module" THEN catalog.modules ELSE catalog.inverters

\* C9: a run of a selector block never raises, and the identifier it
\* produces is a key of the loaded table.
SelectionNeverRaises ==
    sel.block # "none" =>
        /\ sel.raised = "none"
        /\ sel.key \in DOMAIN SelectedTable

\* C10: within the chosen brand every option has a label of its own, and
\* the identifier selected is the option whose label the user picked.
LabelsAreOneToOne ==
    sel.block # "none" =>
        /\ \A i, j \in DOMAIN sel.labels : sel.labels[i] = sel.labels[j] => i = j
        /\ sel.raised = "none" => sel.key = sel.options[sel.chosen]
====
